---- MODULE Spec2Model ----
(***************************************************************************)
(* Model of src/app.py: the upload() rendition pipeline, its rollback, the *)
(* file-backed manifest catalog (load_manifest, list_manifests) and the    *)
(* summary view (summarise_manifest) served by home().                     *)
(*                                                                         *)
(* The file system under UPLOAD_ROOT is the variable fs: a function from   *)
(* playlist ids (the directory names) to a record describing the playlist  *)
(* directory. JSON objects are functions whose DOMAIN is the set of keys   *)
(* present, so dict.get(k, default) is Get(d, k, default).                 *)
(* One upload request runs at a time (the handler is synchronous); home()  *)
(* requests may happen between any two of its steps, and the process may   *)
(* die while manifest.json is being written.                               *)
(***************************************************************************)
EXTENDS Integers, Sequences, FiniteSets, TLC

VARIABLES
    fs,              \* UPLOAD_ROOT: playlist id -> playlist directory
    run,             \* the upload() request in progress (its locals and position)
    now,             \* the last reading of datetime.utcnow(), in whole seconds
    response,        \* what the current or last upload() request flashed
    view,            \* what home() rendered, when the last request was home()
    uploads          \* number of upload() requests received so far

vars == <<fs, run, now, response, view, uploads>>

(***************************************************************************)
(* Bounds of the model.                                                    *)
(***************************************************************************)
MaxUploads == 2      \* upload() requests per behaviour
MaxClock == 1        \* the clock runs over 0..MaxClock seconds
MaxReq == 2          \* length of the submitted "resolutions" form list
MaxChunks == 1       \* chunks the source of a pipeline run splits into

(***************************************************************************)
(* Program constants.                                                      *)
(***************************************************************************)
RESOLUTION_PRESETS == <<2160, 1440, 1080, 720, 480, 360>>
MinSegmentDuration == 5
MaxSegmentDuration == 600
DefaultSegmentDuration == 30
PadWidth == 3

(***************************************************************************)
(* Generic helpers.                                                        *)
(***************************************************************************)
Range(s) == {s[i] : i \in 1..Len(s)}

Get(d, k, default) == IF k \in DOMAIN d THEN d[k] ELSE default

Put(f, k, v) == [x \in (DOMAIN f) \cup {k} |-> IF x = k THEN v ELSE f[x]]

Remove(f, k) == [x \in (DOMAIN f) \ {k} |-> f[x]]

Max(a, b) == IF a >= b THEN a ELSE b

Min(a, b) == IF a <= b THEN a ELSE b

\* The elements of a finite set of integers as a descending sequence:
\* sorted(set(xs), reverse=True).
RECURSIVE SortedDesc(_)
SortedDesc(S) ==
    IF S = {} THEN <<>>
    ELSE LET m == CHOOSE x \in S : \A y \in S : y <= x
         IN  <<m>> \o SortedDesc(S \ {m})

(***************************************************************************)
(* upload(): request validation (lines 434-467).                           *)
(*                                                                         *)
(* The uploaded file is one of four kinds, one per branch of the code:     *)
(* "missing" (no file part, or an empty filename), "disallowed" (the       *)
(* extension is not in ALLOWED_EXTENSIONS), "unsanitizable"                *)
(* (secure_filename() returns ""), and a usable file, given by its slug    *)
(* (sanitize_basename of its safe filename), a positive integer.           *)
(* A form value is an integer; NotAnInteger stands for a value int()       *)
(* rejects.                                                                *)
(***************************************************************************)
NotAnInteger == -1

Slugs == {1}

UploadedFiles ==
    {[kind |-> "missing", slug |-> 0], [kind |-> "disallowed", slug |-> 0],
     [kind |-> "unsanitizable", slug |-> 0]}
    \cup {[kind |-> "ok", slug |-> s] : s \in Slugs}

FormValues == {1440, 720, 999, NotAnInteger}

FormLists == UNION {[1..n -> FormValues] : n \in 0..MaxReq}

FormDurations == {3, NotAnInteger}

\* lines 443-450: keep the values that parse and are presets, in form order.
ParseResolutions(form) ==
    SelectSeq(form, LAMBDA v : v # NotAnInteger /\ v \in Range(RESOLUTION_PRESETS))

\* line 462
ClampDuration(d) == Max(MinSegmentDuration, Min(d, MaxSegmentDuration))

(***************************************************************************)
(* The rendition plan (lines 487-491).                                     *)
(***************************************************************************)
\* A plan that keeps every eligible resolution behind the source height.
PlanKeepsEligible(source_height, requested_resolutions) ==
    LET requested == SortedDesc(Range(requested_resolutions))
        eligible == SelectSeq(requested, LAMBDA res : res <= source_height)
        skipped == SelectSeq(requested, LAMBDA res : res > source_height)
    IN  [requested |-> requested,
         skipped |-> skipped,
         targets |-> <<source_height>> \o eligible]

Plan(source_height, requested_resolutions) ==
    LET requested == SortedDesc(Range(requested_resolutions))
        eligible == SelectSeq(requested, LAMBDA res : res <= source_height)
        skipped == SelectSeq(requested, LAMBDA res : res > source_height)
    IN  [requested |-> requested,
         skipped |-> skipped,
         targets |-> <<source_height>>
                     \o SelectSeq(eligible, LAMBDA res : res < source_height)]

(***************************************************************************)
(* The file system.                                                        *)
(***************************************************************************)
AbsentDoc == [kind |-> "absent"]

\* A playlist directory just created by source_dir.mkdir(parents=True).
\* log and writes are history: the tool runs on the directory and the
\* number of times its manifest.json was opened for writing.
NewDir ==
    [source_dir |-> TRUE, variants_dir |-> FALSE, segments_dir |-> FALSE,
     source_file |-> FALSE,
     variant_files |-> <<>>,     \* height -> length of the variant, in chunks
     segment_files |-> <<>>,     \* height -> chunk numbers of the files there
     manifest |-> AbsentDoc, mtime |-> 0,
     log |-> <<>>, writes |-> 0]

\* cleanup_playlist (lines 220-222)
cleanup_playlist(files, playlist_id) ==
    IF playlist_id \in DOMAIN files THEN Remove(files, playlist_id) ELSE files

(***************************************************************************)
(* segment_video (lines 165-211).                                          *)
(*                                                                         *)
(* The segmenter names chunk number c "<stem>_part_" + ("%03d" % c) +      *)
(* ".mp4". All names in one directory share the prefix and the "mp4"       *)
(* ending, so sorted() compares the digit strings followed by ".". A       *)
(* character is modelled by its rank: "." is 0 and the digit d is d + 1    *)
(* ("." sorts before every digit).                                         *)
(***************************************************************************)
RECURSIVE Digits(_)
Digits(n) == IF n < 10 THEN <<n + 1>> ELSE Digits(n \div 10) \o <<(n % 10) + 1>>

\* "%03d" % c, then the "." of ".mp4"
ChunkName(c) ==
    LET d == Digits(c)
        zeros == [i \in 1..(PadWidth - Len(d)) |-> 1]
    IN  zeros \o d \o <<0>>

\* a < b for Python strings (sequences of character ranks): at the first
\* place where they differ, a has ended or holds the smaller character.
StrLess(a, b) ==
    \E i \in 1..Len(b) :
        /\ \A j \in 1..(i - 1) : j <= Len(a) /\ a[j] = b[j]
        /\ (i > Len(a) \/ a[i] < b[i])

\* The place of each file in the sorted listing: one more than the number
\* of files whose name is smaller. names: chunk number -> file name.
Place(names) ==
    [c \in DOMAIN names |->
        1 + Cardinality({d \in DOMAIN names : StrLess(names[d], names[c])})]

Listing(place) ==
    [i \in 1..Cardinality(DOMAIN place) |-> CHOOSE c \in DOMAIN place : place[c] = i]

\* sorted(destination_dir.glob("*.mp4")): the chunk numbers of the files in
\* the directory, in the order of their names.
SortedChunks(chunks) == Listing(Place([c \in chunks |-> ChunkName(c)]))

\* lines 200-211: the entries built from the sorted listing
Enumerate(items, segment_duration) ==
    [i \in 1..Len(items) |->
        [index |-> i, chunk |-> items[i], duration |-> segment_duration]]

segment_entries(chunks, segment_duration) ==
    Enumerate(SortedChunks(chunks), segment_duration)

\* The files the segmenter writes for a variant that is n chunks long:
\* numbers 0..n-1 (ffmpeg's segment muxer starts at 0).
SegmenterOutput(n) == 0..(n - 1)

(***************************************************************************)
(* transcode_variant (lines 120-162): the encode command scales to         *)
(* "scale=-2:{target_height}", so the file it writes has that height, and  *)
(* the function returns what probe_video measures on that file.            *)
(***************************************************************************)
EncodedHeight(target_height) == target_height

(***************************************************************************)
(* upload(): the pipeline (lines 469-571).                                 *)
(***************************************************************************)
SourceHeights == {600, 1440}

NoId == <<0, 0>>

NoView == [status |-> "none", seen |-> {}, raised_in |-> "nothing"]

\* form_resolutions keeps the list of lines 443-450 as the form gave it
\* (line 487 rebinds requested_resolutions) until the plan is acted on;
\* failed_at is the step whose exception is being handled. source_chunks is
\* the source's duration in segments: -force_key_frames (lines 145-146) cuts
\* every variant at the same instants, so each variant of a run splits into
\* that many chunks.
IdleRun ==
    [pc |-> "idle", playlist_id |-> NoId, slug |-> 0,
     form_resolutions |-> <<>>,
     requested_resolutions |-> <<>>, segment_duration |-> 0,
     source_height |-> 0, source_chunks |-> 0,
     skipped_resolutions |-> <<>>, targets |-> <<>>,
     k |-> 0, variant_height |-> 0, manifest_variants |-> <<>>,
     created_at_ts |-> 0, exc |-> "none", failed_at |-> "none"]

\* An exception leaves the try block for its handler.
Raise(exc) ==
    run' = [run EXCEPT !.pc = "except", !.exc = exc, !.failed_at = run.pc,
                       !.form_resolutions = <<>>]

Dir == fs[run.playlist_id]

SetDir(d) == fs' = [fs EXCEPT ![run.playlist_id] = d]

\* A validation that fails after the playlist's source directory is made.
RejectedAfterMkdir(verdict) ==
    /\ response' = [kind |-> verdict, playlist |-> {}]
    /\ fs' = IF <<1, now>> \in DOMAIN fs THEN fs ELSE Put(fs, <<1, now>>, NewDir)
    /\ UNCHANGED <<run, now>>

\* A validation failure: flash(...) and redirect, nothing else
\* (lines 436-437, 440-441, 453-454, 459-460, 466-467).
Rejected(verdict) ==
    /\ response' = [kind |-> verdict, playlist |-> {}]
    /\ UNCHANGED <<fs, run, now>>

\* lines 469-474. The playlist id is the slug and the UTC second read at
\* line 469; the clock never runs backwards.
Accepted(file, form, duration, second) ==
    /\ run' = [IdleRun EXCEPT
                 !.pc = "mk_source",
                 !.playlist_id = <<file.slug, second>>,
                 !.slug = file.slug,
                 !.form_resolutions = ParseResolutions(form),
                 !.requested_resolutions = ParseResolutions(form),
                 !.segment_duration = ClampDuration(duration)]
    /\ now' = second
    /\ response' = [kind |-> "pending", playlist |-> {<<file.slug, second>>}]
    /\ UNCHANGED fs

\* lines 434-474: the validations in the order of the code, each reading
\* its part of the request when the code reads it.
Upload ==
    /\ run.pc = "idle"
    /\ uploads < MaxUploads
    /\ uploads' = uploads + 1
    /\ \E file \in UploadedFiles :
         IF file.kind = "missing" THEN Rejected("no_file")
         ELSE IF file.kind = "disallowed" THEN Rejected("bad_extension")
         ELSE \E form \in FormLists :
                IF ParseResolutions(form) = <<>> THEN Rejected("no_resolution")
                ELSE \E duration \in FormDurations :
                       IF duration = NotAnInteger THEN Rejected("bad_duration")
                       ELSE IF file.kind = "unsanitizable" THEN Rejected("bad_filename")
                       ELSE \E second \in now..MaxClock :
                              Accepted(file, form, duration, second)
    /\ view' = NoView

\* line 477: source_dir.mkdir(parents=True, exist_ok=False)
MkSourceDir ==
    /\ run.pc = "mk_source"
    /\ \/ /\ run.playlist_id \notin DOMAIN fs
          /\ fs' = Put(fs, run.playlist_id, NewDir)
          /\ run' = [run EXCEPT !.pc = "mk_variants"]
       \/ /\ run.playlist_id \in DOMAIN fs      \* FileExistsError
          /\ Raise("Exception")
          /\ UNCHANGED fs
       \/ /\ run.playlist_id \notin DOMAIN fs   \* OSError
          /\ Raise("Exception")
          /\ UNCHANGED fs
    /\ view' = NoView
    /\ UNCHANGED <<now, response, uploads>>

\* lines 478-479
MkWorkDirs ==
    /\ run.pc \in {"mk_variants", "mk_segments"}
    /\ \/ /\ run.pc = "mk_variants"
          /\ SetDir([Dir EXCEPT !.variants_dir = TRUE])
          /\ run' = [run EXCEPT !.pc = "mk_segments"]
       \/ /\ run.pc = "mk_segments"
          /\ SetDir([Dir EXCEPT !.segments_dir = TRUE])
          /\ run' = [run EXCEPT !.pc = "save"]
       \/ /\ Raise("Exception")                 \* OSError
          /\ UNCHANGED fs
    /\ view' = NoView
    /\ UNCHANGED <<now, response, uploads>>

\* lines 481-482: uploaded_file.save(original_path)
SaveUpload ==
    /\ run.pc = "save"
    /\ \/ /\ SetDir([Dir EXCEPT !.source_file = TRUE])
          /\ run' = [run EXCEPT !.pc = "probe"]
       \/ /\ \E written \in BOOLEAN : SetDir([Dir EXCEPT !.source_file = written])
          /\ Raise("Exception")
    /\ view' = NoView
    /\ UNCHANGED <<now, response, uploads>>

\* lines 484-494: probe the source (its height and its duration), then plan
ProbeAndPlan ==
    /\ run.pc = "probe"
    /\ \/ \E height \in SourceHeights, n \in 1..MaxChunks :
            LET plan == Plan(height, run.requested_resolutions)
            IN  run' = [run EXCEPT
                          !.pc = "transcode",
                          !.source_height = height,
                          !.source_chunks = n,
                          !.requested_resolutions = plan.requested,
                          !.skipped_resolutions = plan.skipped,
                          !.targets = plan.targets,
                          !.k = 1]
       \/ Raise("ProcessingError")
    /\ UNCHANGED <<fs, now, response, view, uploads>>

\* lines 496-507: transcode_variant for targets[k]
Transcode ==
    /\ run.pc = "transcode"
    /\ LET target == run.targets[run.k]
       IN  \/ /\ SetDir([Dir EXCEPT
                           !.variant_files = Put(@, target, run.source_chunks),
                           !.log = Append(@, <<"transcode", target>>)])
              /\ \/ run' = [run EXCEPT !.pc = "segment",
                                       !.form_resolutions = <<>>,
                                       !.variant_height = EncodedHeight(target)]
                 \/ Raise("ProcessingError")   \* probe of the output fails
           \/ /\ \E left \in BOOLEAN :          \* the encoder fails
                   SetDir(IF left THEN [Dir EXCEPT !.variant_files = Put(@, target, 0)]
                          ELSE Dir)
              /\ Raise("ProcessingError")
    /\ view' = NoView
    /\ UNCHANGED <<now, response, uploads>>

\* A record that flags every target up to the source height as master.
VariantRecordFlagsEligible(target, source_height, variant_height, segments) ==
    [label |-> [height |-> target, master |-> target <= source_height],
     height |-> variant_height,
     segments |-> segments,
     is_master |-> target <= source_height]

\* The record appended to manifest_variants (lines 521-533).
VariantRecord(target, source_height, variant_height, segments) ==
    [label |-> [height |-> target, master |-> target = source_height],
     height |-> variant_height,
     segments |-> segments,
     is_master |-> target = source_height]

\* A loop that stops after its first target.
AfterFirstTarget(k, targets) == "open_manifest"

\* line 496: the loop goes on to the next target, or ends
AfterTarget(k, targets) == IF k < Len(targets) THEN "transcode" ELSE "open_manifest"

\* lines 509-533: segment_video for targets[k], then the variant's record
Segment ==
    /\ run.pc = "segment"
    /\ LET target == run.targets[run.k]
           chunks == SegmenterOutput(Dir.variant_files[target])
           entries == segment_entries(chunks, run.segment_duration)
           done == [Dir EXCEPT !.segment_files = Put(@, target, chunks),
                               !.log = Append(@, <<"segment", target>>)]
       IN  \/ /\ SetDir(done)
              /\ run' = [run EXCEPT
                           !.manifest_variants =
                               Append(@, VariantRecord(target, run.source_height,
                                                       run.variant_height, entries)),
                           !.k = @ + 1,
                           !.pc = AfterTarget(run.k, run.targets)]
           \/ /\ SetDir(done)                   \* variant_path.stat() fails
              /\ Raise("Exception")
           \/ /\ \E m \in chunks :              \* the segmenter fails at chunk m
                   SetDir([Dir EXCEPT !.segment_files = Put(@, target, 0..(m - 1))])
              /\ Raise("ProcessingError")
    /\ view' = NoView
    /\ UNCHANGED <<now, response, uploads>>

\* lines 535-551
ManifestPayload ==
    [kind |-> "object",
     playlist_id |-> run.playlist_id,
     created_at_ts |-> run.created_at_ts,
     segment_duration |-> run.segment_duration,
     requested_resolutions |-> run.requested_resolutions,
     skipped_resolutions |-> run.skipped_resolutions,
     source |-> [filename |-> run.slug, height |-> run.source_height],
     variants |-> run.manifest_variants]

\* lines 535-553: the clock is read for created_at_ts, then
\* manifest_path.open("w") creates manifest.json, empty. A run lasts less
\* than one second of the clock: the reading is that of line 469.
OpenManifest ==
    /\ run.pc = "open_manifest"
    /\ \/ /\ SetDir([Dir EXCEPT !.manifest = [kind |-> "partial"],
                                !.mtime = now, !.writes = @ + 1])
          /\ run' = [run EXCEPT !.pc = "dump_manifest", !.created_at_ts = now]
       \/ /\ Raise("Exception")
          /\ UNCHANGED fs
    /\ view' = NoView
    /\ UNCHANGED <<now, response, uploads>>

\* line 554: json.dump writes the document into the open file; the file is
\* complete when the with block closes it
DumpManifest ==
    /\ run.pc = "dump_manifest"
    /\ \/ /\ SetDir([Dir EXCEPT !.manifest = ManifestPayload, !.mtime = now])
          /\ run' = [run EXCEPT !.pc = "finish"]
       \/ /\ Raise("Exception")
          /\ UNCHANGED fs
    /\ view' = NoView
    /\ UNCHANGED <<now, response, uploads>>

\* lines 556-562
Finish ==
    /\ run.pc = "finish"
    /\ \/ /\ response' = [kind |-> "success", playlist |-> {run.playlist_id}]
          /\ run' = IdleRun
       \/ /\ Raise("Exception")
          /\ UNCHANGED response
    /\ view' = NoView
    /\ UNCHANGED <<fs, now, uploads>>

\* A handler that rolls back only on ProcessingError.
ExceptHandlerProcessingOnly(files, playlist_id, exc) ==
    IF exc = "ProcessingError"
    THEN cleanup_playlist(files, playlist_id)
    ELSE files

\* lines 564-571: what each except clause does to the file system
ExceptHandler(files, playlist_id, exc) ==
    IF exc = "ProcessingError"
    THEN cleanup_playlist(files, playlist_id)
    ELSE cleanup_playlist(files, playlist_id)

Rollback ==
    /\ run.pc = "except"
    /\ fs' = ExceptHandler(fs, run.playlist_id, run.exc)
    /\ response' = [kind |-> "error", playlist |-> {run.playlist_id},
                    message |-> <<run.exc, run.failed_at, run.k>>]
    /\ run' = IdleRun
    /\ view' = NoView
    /\ UNCHANGED <<now, uploads>>

\* The process dies between open("w") and the end of json.dump
\* (lines 553-554); the files stay as they are.
Crash ==
    /\ run.pc = "dump_manifest"
    /\ run' = IdleRun
    /\ response' = [kind |-> "crashed", playlist |-> {run.playlist_id}]
    /\ view' = NoView
    /\ UNCHANGED <<fs, now, uploads>>

(***************************************************************************)
(* The catalog: load_manifest and list_manifests (lines 225-279).          *)
(*                                                                         *)
(* A manifest.json is a document of one of these kinds:                    *)
(*   "object"     a JSON object; the record's other fields are its keys    *)
(*   "partial"    not parseable (empty or cut short): JSONDecodeError      *)
(*   "unreadable" open() fails: OSError                                    *)
(*   "not_object" valid JSON that is not an object (a list): .get fails    *)
(*   "bad_field"  an object whose "variants" is not a list of objects      *)
(* and AbsentDoc where the directory has no manifest.json.                 *)
(***************************************************************************)
PathLess(p, q) == p[1] < q[1] \/ (p[1] = q[1] /\ p[2] < q[2])

\* sorted(root.glob("*/manifest.json")), as the ids of the directories
RECURSIVE SortedPaths(_)
SortedPaths(ids) ==
    IF ids = {} THEN <<>>
    ELSE LET first == CHOOSE p \in ids : \A q \in ids : q = p \/ PathLess(p, q)
         IN  <<first>> \o SortedPaths(ids \ {first})

ManifestPaths(files) ==
    SortedPaths({p \in DOMAIN files : files[p].manifest.kind # "absent"})

\* lines 225-230
load_manifest(files, playlist_id) ==
    IF playlist_id \notin DOMAIN files \/ files[playlist_id].manifest.kind = "absent"
    THEN [status |-> "none"]
    ELSE LET doc == files[playlist_id].manifest
         IN  IF doc.kind \in {"partial", "unreadable"}
             THEN [status |-> "raised"]
             ELSE [status |-> "loaded", doc |-> doc]

\* lines 256-263: the distinct heights, in order of first occurrence
RECURSIVE Resolutions(_, _)
Resolutions(variants, acc) ==
    IF variants = <<>> THEN acc
    ELSE LET height == Get(Head(variants), "height", 0)
         IN  Resolutions(Tail(variants),
                         IF height # 0 /\ height \notin Range(acc)
                         THEN Append(acc, height) ELSE acc)

\* lines 246-273: the entry of one manifest document
CatalogEntry(files, path) ==
    LET data == files[path].manifest
        playlist_id == Get(data, "playlist_id", path)
        source == Get(data, "source", <<>>)
    IN  [id |-> playlist_id,
         title |-> Get(source, "filename", playlist_id[1]),
         resolutions |-> Resolutions(Get(data, "variants", <<>>), <<>>),
         created_at_ts |-> Get(data, "created_at_ts", files[path].mtime)]

\* lines 275-276: float(created_at_ts or 0.0)
sort_key(item) == IF item.created_at_ts # 0 THEN item.created_at_ts ELSE 0

\* An insertion that puts item in front of the elements with its key.
InsertBeforeEqual(sorted, item) ==
    LET front == SelectSeq(sorted, LAMBDA other : sort_key(other) > sort_key(item))
        back == SelectSeq(sorted, LAMBDA other : sort_key(other) <= sort_key(item))
    IN  front \o <<item>> \o back

\* list.sort(key=sort_key, reverse=True): a stable sort, larger keys first.
\* Insert puts item behind every element whose key is not smaller.
RECURSIVE Insert(_, _)
Insert(sorted, item) ==
    IF sorted = <<>> THEN <<item>>
    ELSE IF sort_key(Head(sorted)) >= sort_key(item)
         THEN <<Head(sorted)>> \o Insert(Tail(sorted), item)
         ELSE <<item>> \o sorted

RECURSIVE SortManifests(_, _)
SortManifests(items, sorted) ==
    IF items = <<>> THEN sorted
    ELSE SortManifests(Tail(items), Insert(sorted, Head(items)))

\* The except clause of line 243: the documents the loop skips.
Skipped(doc) == doc.kind \in {"partial", "unreadable"}

\* The documents on which lines 246-263 raise.
Raises(doc) == doc.kind \in {"not_object", "bad_field"}

\* lines 233-279
list_manifests(files) ==
    LET paths == ManifestPaths(files)
        kept == SelectSeq(paths, LAMBDA p : ~Skipped(files[p].manifest))
    IN  IF \E i \in 1..Len(kept) : Raises(files[kept[i]].manifest)
        THEN [status |-> "raised", manifests |-> <<>>]
        ELSE [status |-> "ok",
              manifests |-> SortManifests(
                  [i \in 1..Len(kept) |-> CatalogEntry(files, kept[i])], <<>>)]

(***************************************************************************)
(* summarise_manifest (lines 282-341).                                     *)
(***************************************************************************)
\* lines 289-299
Enriched(variant) ==
    [label |-> Get(variant, "label", 0),
     height |-> Get(variant, "height", 0),      \* 0 stands for None
     segment_count |-> Len(Get(variant, "segments", <<>>)),
     is_master |-> Get(variant, "is_master", FALSE)]

\* lines 288-303: <<master_variant, other_variants>> after the loop;
\* master_variant is <<>> for None and <<m>> otherwise.
RECURSIVE SplitVariants(_, _, _)
SplitVariants(variants, master, others) ==
    IF variants = <<>> THEN <<master, others>>
    ELSE LET enriched == Enriched(Head(variants))
         IN  IF enriched.is_master /\ master = <<>>
             THEN SplitVariants(Tail(variants), <<enriched>>, others)
             ELSE SplitVariants(Tail(variants), master, Append(others, enriched))

\* line 319: stable, larger heights first
RECURSIVE InsertByHeight(_, _)
InsertByHeight(sorted, item) ==
    IF sorted = <<>> THEN <<item>>
    ELSE IF Head(sorted).height >= item.height
         THEN <<Head(sorted)>> \o InsertByHeight(Tail(sorted), item)
         ELSE <<item>> \o sorted

RECURSIVE SortByHeight(_, _)
SortByHeight(items, sorted) ==
    IF items = <<>> THEN sorted
    ELSE SortByHeight(Tail(items), InsertByHeight(sorted, Head(items)))

summarise_manifest(manifest) ==
    LET variants_data == Get(manifest, "variants", <<>>)
        split == SplitVariants(variants_data, <<>>, <<>>)
        master_variant ==
            IF split[1] = <<>> /\ variants_data # <<>>
            THEN <<[Enriched(variants_data[1]) EXCEPT !.is_master = TRUE]>>
            ELSE split[1]
    IN  [playlist_id |-> Get(manifest, "playlist_id", NoId),
         skipped_resolutions |-> Get(manifest, "skipped_resolutions", <<>>),
         master |-> master_variant,
         variants |-> SortByHeight(split[2], <<>>)]

(***************************************************************************)
(* home() (lines 402-429). selected stands for the "playlist" query        *)
(* argument or the session's last upload: {} or {playlist id}.             *)
(* An exception in the handler is the "error" view (HTTP 500). seen is     *)
(* history: the kinds of the manifest documents the request read.          *)
(***************************************************************************)
\* lines 408-429, given the listing of line 406
Render(files, selected, available) ==
    LET chosen == IF selected # {} THEN selected
                  ELSE IF available.status = "ok" /\ available.manifests # <<>>
                       THEN {available.manifests[1].id} ELSE {}
        loaded == IF chosen = {} THEN [status |-> "none"]
                  ELSE load_manifest(files, CHOOSE p \in chosen : TRUE)
        listed == {files[p].manifest.kind : p \in Range(ManifestPaths(files))}
    IN  IF available.status = "raised"
        THEN [status |-> "error", seen |-> listed, raised_in |-> "list_manifests"]
        ELSE IF loaded.status = "raised" \/
                (loaded.status = "loaded" /\ loaded.doc.kind # "object")
        THEN [status |-> "error",
              seen |-> listed \cup {files[p].manifest.kind : p \in chosen},
              raised_in |-> "load_manifest"]
        ELSE [status |-> "ok",
              seen |-> listed \cup
                       (IF loaded.status = "loaded" THEN {"object"} ELSE {}),
              raised_in |-> "nothing",
              available_playlists |-> available.manifests,
              active_playlist_id |-> IF loaded.status = "loaded" THEN chosen ELSE {},
              upload_summary |-> IF loaded.status = "loaded"
                                 THEN <<summarise_manifest(loaded.doc)>> ELSE <<>>]

Home(selected) ==
    /\ view' = Render(fs, selected, list_manifests(fs))
    /\ UNCHANGED <<fs, run, now, response, uploads>>

PlaylistIds == Slugs \X (0..MaxClock)

Selections == {{}} \cup {{p} : p \in PlaylistIds}

Init ==
    /\ fs = <<>>
    /\ run = IdleRun
    /\ now = 0
    /\ response = [kind |-> "none", playlist |-> {}]
    /\ view = NoView
    /\ uploads = 0

Next ==
    \/ Upload
    \/ MkSourceDir
    \/ MkWorkDirs
    \/ SaveUpload
    \/ ProbeAndPlan
    \/ Transcode
    \/ Segment
    \/ OpenManifest
    \/ DumpManifest
    \/ Finish
    \/ Rollback
    \/ Crash
    \/ \E selected \in Selections : Home(selected)

Spec == Init /\ [][Next]_vars

(***************************************************************************)
(* The catalog over a media root that upload() did not write alone:        *)
(* manifests of an older schema (no created_at_ts), and documents that are *)
(* unreadable or malformed. Only home() runs.                              *)
(***************************************************************************)
MaxCatalog == 3      \* playlist directories under the root
MaxStamp == 2        \* creation epochs and modification times are 1..MaxStamp

CatalogIds == {<<1, s>> : s \in 1..MaxCatalog}

StoredVariants(heights) ==
    [i \in 1..Len(heights) |->
        [label |-> [height |-> heights[i], master |-> i = 1],
         height |-> heights[i], segments |-> <<>>, is_master |-> i = 1]]

\* A directory holding the given manifest document.
StoredDir(doc, mtime) ==
    [NewDir EXCEPT !.variants_dir = TRUE, !.segments_dir = TRUE,
                   !.source_file = TRUE, !.manifest = doc, !.mtime = mtime,
                   !.writes = 1]

CatalogDirs(p) ==
    {StoredDir([kind |-> k], 1) :
        k \in {"partial", "unreadable", "not_object", "bad_field"}}
    \cup {StoredDir([kind |-> "object", playlist_id |-> p, created_at_ts |-> ts,
                     source |-> [filename |-> p[1], height |-> 720],
                     variants |-> StoredVariants(<<720, 480>>)], ts) :
            ts \in 1..MaxStamp}
    \cup {StoredDir([kind |-> "object", playlist_id |-> p,
                     source |-> [filename |-> p[1], height |-> 720],
                     variants |-> StoredVariants(<<720>>)], mtime) :
            mtime \in 1..MaxStamp}

CatalogRoots ==
    UNION {{files \in [ids -> UNION {CatalogDirs(p) : p \in ids}] :
               \A p \in ids : files[p] \in CatalogDirs(p)} :
           ids \in SUBSET CatalogIds}

CatalogInit ==
    /\ fs \in CatalogRoots
    /\ run = IdleRun
    /\ now = MaxStamp
    /\ response = [kind |-> "none", playlist |-> {}]
    /\ view = NoView
    /\ uploads = 0

CatalogNext == \E selected \in {{}} \cup {{p} : p \in CatalogIds} : Home(selected)

CatalogSpec == CatalogInit /\ [][CatalogNext]_vars

(***************************************************************************)
(* summarise_manifest over stored manifests whose variants may lack        *)
(* is_master or height (older or hand-edited documents). Only home() runs. *)
(***************************************************************************)
MaxVariants == 3     \* variants in a stored manifest

\* A variant object: label is its position in storage order; a height of 0
\* or a flag of "absent" leaves the key out.
StoredVariant(i, height, flag) ==
    LET base == [label |-> i, segments |-> <<>>]
        with_height == IF height = 0 THEN base ELSE Put(base, "height", height)
    IN  IF flag = "absent" THEN with_height
        ELSE Put(with_height, "is_master", flag = "true")

VariantLists ==
    UNION {{[i \in 1..n |-> StoredVariant(i, hs[i], ms[i])] :
               hs \in [1..n -> {0, 480, 720}],
               ms \in [1..n -> {"absent", "true", "false"}]} :
           n \in 1..MaxVariants}

SummaryId == <<1, 0>>

SummaryInit ==
    /\ \E variants \in VariantLists :
         fs = Put(<<>>, SummaryId,
                  StoredDir([kind |-> "object", playlist_id |-> SummaryId,
                             created_at_ts |-> 0,
                             source |-> [filename |-> 1, height |-> 720],
                             variants |-> variants], 0))
    /\ run = IdleRun
    /\ now = 0
    /\ response = [kind |-> "none", playlist |-> {}]
    /\ view = NoView
    /\ uploads = 0

SummaryNext == \E selected \in {{}, {SummaryId}} : Home(selected)

SummarySpec == SummaryInit /\ [][SummaryNext]_vars

(***************************************************************************)
(* segment_video on variants of many chunks: a run that has transcoded its *)
(* only target and is about to segment it. Only that step runs.            *)
(***************************************************************************)
MaxShort == 12       \* short variants: 1..MaxShort chunks
MaxLong == 1001      \* long variants: MaxLong - 1 and MaxLong chunks

SegmentCounts == (1..MaxShort) \cup {MaxLong - 1, MaxLong}

SegmentId == <<1, 0>>

SegmentInit ==
    /\ \E n \in SegmentCounts :
         fs = Put(<<>>, SegmentId,
                  [NewDir EXCEPT !.variants_dir = TRUE, !.segments_dir = TRUE,
                                 !.source_file = TRUE,
                                 !.variant_files = Put(<<>>, 720, n),
                                 !.log = <<<<"transcode", 720>>>>])
    /\ run = [IdleRun EXCEPT !.pc = "segment", !.playlist_id = SegmentId,
                             !.slug = 1, !.form_resolutions = <<720>>,
                             !.requested_resolutions = <<720>>,
                             !.segment_duration = MinSegmentDuration,
                             !.source_height = 720, !.targets = <<720>>,
                             !.k = 1, !.variant_height = 720]
    /\ now = 0
    /\ response = [kind |-> "pending", playlist |-> {SegmentId}]
    /\ view = NoView
    /\ uploads = 1

SegmentNext == Segment

SegmentSpec == SegmentInit /\ [][SegmentNext]_vars

(***************************************************************************)
(* The planner over every preset: a run that has saved its upload and is   *)
(* about to probe it. Only that step runs.                                 *)
(***************************************************************************)
MaxPlanReq == 3      \* length of the parsed "resolutions" list

PlanLists == UNION {[1..n -> Range(RESOLUTION_PRESETS)] : n \in 1..MaxPlanReq}

PlanId == <<1, 0>>

PlanInit ==
    /\ fs = Put(<<>>, PlanId,
                [NewDir EXCEPT !.variants_dir = TRUE, !.segments_dir = TRUE,
                               !.source_file = TRUE])
    /\ \E requested \in PlanLists :
         run = [IdleRun EXCEPT !.pc = "probe", !.playlist_id = PlanId,
                               !.slug = 1, !.form_resolutions = requested,
                               !.requested_resolutions = requested,
                               !.segment_duration = DefaultSegmentDuration]
    /\ now = 0
    /\ response = [kind |-> "pending", playlist |-> {PlanId}]
    /\ view = NoView
    /\ uploads = 1

PlanNext == ProbeAndPlan

PlanSpec == PlanInit /\ [][PlanNext]_vars

(***************************************************************************)
(* Properties.                                                             *)
(***************************************************************************)
Listed(files) == {list_manifests(files).manifests[i].id :
                     i \in 1..Len(list_manifests(files).manifests)}

\* C1: when a run that passed validation ends in its except clause, whatever
\* the step that raised and whatever the exception, its playlist directory
\* is gone with everything in it, and list_manifests() has no entry for it.
C1_FailedRunRemovesPlaylist ==
    (run.pc = "idle" /\ response.kind = "error") =>
        \A p \in response.playlist :
            /\ p \notin DOMAIN fs
            /\ p \notin Listed(fs)
            /\ load_manifest(fs, p).status = "none"

\* C1 witness: the encoder failed on the second target, after the first
\* target was transcoded and segmented, and the run has rolled back.
C1_Witness ==
    /\ run.pc = "idle"
    /\ response.kind = "error"
    /\ response.message = <<"ProcessingError", "transcode", 2>>

\* C2: when a run fails at source_dir.mkdir because its playlist id is that
\* of a completed playlist, ending the run leaves that playlist's directory
\* and manifest as they were, still loaded and listed.
C2_CollisionKeepsFirstPlaylist ==
    [][(/\ run.pc = "except"
        /\ run.failed_at = "mk_source"
        /\ run.playlist_id \in DOMAIN fs
        /\ fs[run.playlist_id].manifest.kind = "object"
        /\ run'.pc = "idle"
        /\ response'.kind = "error")
       => (/\ run.playlist_id \in DOMAIN fs'
           /\ fs'[run.playlist_id] = fs[run.playlist_id]
           /\ load_manifest(fs', run.playlist_id).status = "loaded"
           /\ run.playlist_id \in Listed(fs'))]_vars

\* The tool runs of a pipeline over targets: transcode then segment, target
\* by target.
LogOf(targets) ==
    [i \in 1..(2 * Len(targets)) |->
        IF i % 2 = 1 THEN <<"transcode", targets[(i + 1) \div 2]>>
        ELSE <<"segment", targets[i \div 2]>>]

\* C3: whenever a playlist's manifest.json exists, it was opened for writing
\* once and the tool runs on the directory are exactly transcode then
\* segment for every target of the plan, in planner order; a complete
\* manifest holds one variant record per target, in that order.
C3_ManifestOnlyAfterAllTargets ==
    \A p \in DOMAIN fs :
        fs[p].manifest.kind # "absent" =>
            /\ fs[p].writes = 1
            /\ fs[p].manifest.kind = "object" =>
                 LET doc == fs[p].manifest
                     targets == Plan(doc.source.height,
                                     doc.requested_resolutions).targets
                 IN  /\ fs[p].log = LogOf(targets)
                     /\ Len(doc.variants) = Len(targets)
                     /\ \A i \in 1..Len(targets) :
                          doc.variants[i].label.height = targets[i]
            /\ (/\ fs[p].manifest.kind = "partial"
                /\ run.playlist_id = p
                /\ \/ run.pc = "dump_manifest"
                   \/ run.pc = "except" /\ run.failed_at = "dump_manifest")
               => fs[p].log = LogOf(run.targets)

\* C3 witness: a complete manifest of a run with two targets.
C3_Witness ==
    \E p \in DOMAIN fs :
        /\ fs[p].manifest.kind = "object"
        /\ Len(fs[p].manifest.variants) = 2
        /\ Len(fs[p].log) = 4

\* C4: no home() request, whenever it runs between the steps of an upload
\* or after a crash, reads a manifest.json that is partly written.
C4_ReadersSeeNoPartialManifest == "partial" \notin view.seen

\* C5: for the source height H and the requested list R of a run (with its
\* duplicates), targets starts with H, its other entries are strictly
\* decreasing and below H, skipped holds exactly the requested resolutions
\* above H in descending order, targets and skipped share nothing, and each
\* requested resolution is in exactly one of them.
C5_PlanPartitionsRequest ==
    (run.pc = "transcode" /\ run.k = 1) =>
        LET H == run.source_height
            R == Range(run.form_resolutions)
            T == run.targets
            S == run.skipped_resolutions
        IN  /\ Len(T) >= 1 /\ T[1] = H
            /\ \A i \in 2..Len(T) : T[i] < T[i - 1] /\ T[i] < H
            /\ Range(S) = {r \in R : r > H}
            /\ \A i \in 2..Len(S) : S[i] < S[i - 1]
            /\ Range(T) \cap Range(S) = {}
            /\ \A r \in R : (r \in Range(T)) # (r \in Range(S))

\* C5 witness: a planned request with a duplicate, a skipped resolution, a
\* resolution equal to the source height and a smaller target.
C5_Witness ==
    /\ run.pc = "transcode"
    /\ run.form_resolutions = <<720, 2160, 720>>
    /\ run.source_height = 1440
    /\ run.targets = <<1440, 720>>
    /\ run.skipped_resolutions = <<2160>>

\* C6: a complete manifest written by upload() has exactly one variant
\* flagged is_master, and that variant's recorded height is the manifest's
\* source height.
C6_OneMasterAtSourceHeight ==
    \A p \in DOMAIN fs :
        fs[p].manifest.kind = "object" =>
            LET doc == fs[p].manifest
                masters == {i \in 1..Len(doc.variants) : doc.variants[i].is_master}
            IN  /\ Cardinality(masters) = 1
                /\ \A i \in masters : doc.variants[i].height = doc.source.height

\* C6 witness: a complete manifest with two variants whose source height
\* was not requested.
C6_Witness ==
    \E p \in DOMAIN fs :
        /\ fs[p].manifest.kind = "object"
        /\ Len(fs[p].manifest.variants) = 2
        /\ fs[p].manifest.source.height \notin Range(fs[p].manifest.requested_resolutions)

\* C7: for a stored manifest with at least one variant and at most one
\* variant flagged is_master, the summary's master is the flagged variant,
\* or the first stored variant when none is flagged, and the summary's
\* variants are all the stored variants but that one, by descending height
\* (a missing height counting as 0).
C7_SummaryExcludesMaster ==
    (view.status = "ok" /\ view.upload_summary # <<>>) =>
        LET stored == fs[SummaryId].manifest.variants
            summary == view.upload_summary[1]
            flagged == {i \in 1..Len(stored) : Get(stored[i], "is_master", FALSE)}
            selected == IF flagged = {} THEN 1 ELSE CHOOSE i \in flagged : TRUE
            others == summary.variants
        IN  Cardinality(flagged) <= 1 =>
                /\ summary.master # <<>>
                /\ summary.master[1].label = selected
                /\ summary.master[1].is_master
                /\ Len(others) = Len(stored) - 1
                /\ {others[i].label : i \in 1..Len(others)}
                       = (1..Len(stored)) \ {selected}
                /\ \A i \in 2..Len(others) : others[i].height <= others[i - 1].height

\* C8: after segment_video on a variant that the segmenter split into N
\* chunk files, the variant's record holds N segments, the i-th with index
\* i and the i-th chunk in playback order (chunk number i - 1).
C8_SegmentsInPlaybackOrder ==
    (run.manifest_variants # <<>> /\ run.playlist_id \in DOMAIN fs) =>
        LET segments == run.manifest_variants[1].segments
            N == Cardinality(fs[run.playlist_id].segment_files[run.targets[1]])
        IN  /\ Len(segments) = N
            /\ \A i \in 1..N : segments[i].index = i /\ segments[i].chunk = i - 1

\* C9: list_manifests() never raises, whatever the manifest documents under
\* the root; it returns one entry for every well-formed manifest.
C9_ListingSkipsMalformed ==
    /\ view.raised_in # "list_manifests"
    /\ view.status = "ok" =>
         {view.available_playlists[i].id : i \in 1..Len(view.available_playlists)}
             = {p \in DOMAIN fs : fs[p].manifest.kind = "object"}

\* The creation epoch of a stored manifest: its created_at_ts, or the
\* modification time of manifest.json when it has none.
Epoch(p) == IF "created_at_ts" \in DOMAIN fs[p].manifest
            THEN fs[p].manifest.created_at_ts ELSE fs[p].mtime

\* C10: the listing holds one entry per well-formed manifest, each with its
\* creation epoch (the file's modification time when created_at_ts is
\* absent), larger epochs first, and entries with the same epoch in the
\* sorted order of their manifest paths.
C10_CatalogOrder ==
    view.status = "ok" =>
        LET L == view.available_playlists
        IN  /\ Len(L) = Cardinality({p \in DOMAIN fs : fs[p].manifest.kind = "object"})
            /\ \A i \in 1..Len(L) :
                 /\ L[i].id \in DOMAIN fs
                 /\ fs[L[i].id].manifest.kind = "object"
                 /\ L[i].created_at_ts = Epoch(L[i].id)
            /\ \A i, j \in 1..Len(L) :
                 i < j => \/ L[i].created_at_ts > L[j].created_at_ts
                          \/ /\ L[i].created_at_ts = L[j].created_at_ts
                             /\ PathLess(L[i].id, L[j].id)

\* C10 witness: a listing of three entries, the last two with the same
\* epoch, one of them from its file's modification time.
C10_Witness ==
    /\ view.status = "ok"
    /\ Len(view.available_playlists) = 3
    /\ view.available_playlists[1].created_at_ts > view.available_playlists[2].created_at_ts
    /\ view.available_playlists[2].created_at_ts = view.available_playlists[3].created_at_ts
    /\ "created_at_ts" \notin DOMAIN fs[view.available_playlists[2].id].manifest
    /\ "created_at_ts" \in DOMAIN fs[view.available_playlists[3].id].manifest

\* The responses of the five validations of upload().
ValidationFailures ==
    {"no_file", "bad_extension", "no_resolution", "bad_duration", "bad_filename"}

\* C11: an upload() request that a validation rejects (no file, disallowed
\* extension, no valid resolution, non-integer segment duration,
\* unsanitizable filename) answers in that one step: the file system is
\* left as it was (no directory made, no tool run logged, nothing removed),
\* no pipeline step and no except clause is pending, and the response names
\* no playlist. A request that does start the pipeline has a non-empty
\* requested list and a duration within the limits.
C11_ValidationBeforePipeline ==
    [][(uploads' = uploads + 1)
       => /\ response'.kind \in ValidationFailures \cup {"pending"}
          /\ response'.kind \in ValidationFailures
                => /\ fs' = fs
                   /\ run.pc = "idle"
                   /\ run' = run
                   /\ response'.playlist = {}
          /\ response'.kind = "pending"
                => /\ run'.pc = "mk_source"
                   /\ run'.requested_resolutions # <<>>
                   /\ run'.segment_duration \in MinSegmentDuration..MaxSegmentDuration]_vars

\* C11 witness: the second request selected no valid resolution and was
\* rejected, with the first request's playlist complete on disk and no run
\* in progress.
C11_Witness ==
    /\ response.kind = "no_resolution"
    /\ uploads = 2
    /\ run.pc = "idle"
    /\ \E p \in DOMAIN fs : fs[p].manifest.kind = "object"

====
